---- MODULE Spec2Model ----
(***************************************************************************)
(* Real-time noise-reduction tools of rnnoise-gui.                         *)
(*                                                                         *)
(* Specification Spec: the stream lifecycle controller (start_processing,  *)
(* stop_processing, on_window_destroy, on_filter_toggle, update_vu_meter)  *)
(* running on the GTK thread, interleaved with duplex_callback running on  *)
(* the audio thread of the miniaudio device.  Three source variants share  *)
(* the controller: audio_denoiser.c, the callback of "Audio duplex         *)
(* callback.c" (unnamed/part_000) bound to the same AppState, and the      *)
(* simplified mono tool (unnamed/part_001).                                *)
(*                                                                         *)
(* Specification SpecFile: the file-processing loop process_audio of       *)
(* rnnoise_gui.c.                                                          *)
(*                                                                         *)
(* Specification SpecCallback: one invocation of duplex_callback of        *)
(* audio_denoiser.c taken sample by sample: downmix, padding, meter value, *)
(* suppressor, conversion back to PCM and the output frames written.       *)
(*                                                                         *)
(* Specification SpecBiquad: biquad_init_bandpass, as on_filter_toggle     *)
(* calls it, and biquad_process on the two band-pass filters.              *)
(*                                                                         *)
(* Specification SpecMix: the stereo-to-float conversion of one frame in   *)
(* the callback of unnamed/part_000.                                       *)
(*                                                                         *)
(* Specification SpecMono: one invocation of duplex_callback of the mono   *)
(* tool (unnamed/part_001) taken sample by sample.                         *)
(*                                                                         *)
(* Specification SpecRecorder: the audio recorder (unnamed/part_002): the  *)
(* handlers on_record, on_pause, on_stop, on_save and on_device_changed on *)
(* the GTK thread, interleaved with data_callback on the audio thread.     *)
(***************************************************************************)
EXTENDS Integers, Sequences, FiniteSets, TLC

\* ------------------------------------------------------------------ bounds
MaxSessions == 2      \* successful rnnoise_create calls in one run
MaxCallbacks == 3     \* invocations of duplex_callback in one run
MaxFileSamples == 1000 \* longest input file of process_audio, in samples
MaxRuns == 2          \* invocations of process_audio in one run
MaxSamples == 3       \* calls of biquad_process in one run
MaxFrameCount == 961  \* largest frameCount of the invocation taken by sample
NearWindow == 1       \* frame counts taken: within this of a multiple of 480
MaxRecCallbacks == 3  \* invocations of the recorder's data_callback in one run

\* ------------------------------------------------------- program constants
SAMPLE_RATE == 48000
RNNOISE_FRAME_SIZE == 480
FRAME_SIZE == 480
NULL == 0
MAX_SAMPLES == 48000 * 300

Variants == {"audio_denoiser", "part_000", "part_001"}

\* Frame counts the audio backend hands to the callback: a partial window,
\* one full window, and two full windows.
FrameCounts == {100, RNNOISE_FRAME_SIZE, 2 * RNNOISE_FRAME_SIZE}

VARIABLES
    variant,             \* which source variant is running
    \* ---- AppState
    is_processing, filter_enabled, device_initialized, rnnoise_state,
    status_label, start_sensitive, stop_sensitive,
    input_index, output_index,
    bandpass_filter1, bandpass_filter2,
    \* ---- resources behind the handles
    heap,                \* live DenoiseStates: id -> frames processed so far
    created,             \* DenoiseStates created so far
    device,              \* "uninit" | "inited" | "started"
    context,             \* "live" | "released"
    \* ---- GTK thread
    ui_pc, ui_caller, vu_pending,
    \* ---- audio thread
    cb_pc, cb_i, cb_frameCount, cb_count, first_frame, last_win,
    cb_posts,            \* VuUpdateData posted by the current invocation
    \* ---- faults
    use_after_free, double_free, double_uninit,
    \* ---- process_audio of rnnoise_gui.c
    pa_pc,
    pa_len,              \* samples of the accepted input that follow its header
    pa_pos, pa_first, pa_written, pa_windows, pa_runs, pa_st,
    pa_fin, pa_fout, pa_out_created,
    pa_reject,           \* the check that turned the request down, or "none"
    pa_data_size,        \* data_size of the header written to the output
    pa_opens, pa_closes, \* fopen successes and fclose calls, per file
    pa_creates, pa_destroys, \* rnnoise_create successes, rnnoise_destroy calls
    \* ---- one invocation of duplex_callback of audio_denoiser.c, by sample
    dc_pc,
    dc_active,           \* whether the invocation passed the guard
    dc_state, dc_is_processing, dc_pInput, dc_pOutput, \* what the guard reads
    dc_null_store,       \* a store through a null output pointer happened
    dc_calls,            \* calls of rnnoise_process_frame so far
    dc_path,             \* the path the last window took
    dc_filter,           \* state->filter_enabled as the invocation reads it
    dc_frameCount,
    dc_in,               \* the input buffer: the pair its frames are built from
    dc_delta,            \* what the suppressor adds to a sample, in tenths
    dc_narrow,           \* how the build narrows an out-of-range float
    dc_i, dc_to_process,
    dc_buffer,           \* float buffer[480] as handed to the suppressor
    dc_processed,        \* buffer[] after the suppressor, in tenths
    dc_volume,           \* what sqrtf is applied to: [sum, n] for sum / n
    dc_out,              \* output frames: index -> [n, l, r], n writes so far
    dc_windows, dc_posts,
    \* ---- biquad_process applied to the two bandpass filters
    bq_n,                \* calls so far
    bq_which,            \* the filter of the last call: 1 or 2
    bq_in, bq_out,       \* its input and its result, in tenths
    \* ---- the downmix of unnamed/part_000 applied to one frame
    mx_done, mx_l, mx_r,
    mx_float,            \* float_buffer[j]
    \* ---- one invocation of duplex_callback of unnamed/part_001, by sample
    mo_pc, mo_frameCount,
    mo_in,               \* the value the input samples are built from
    mo_delta,            \* what the suppressor adds to a sample
    mo_i, mo_block,
    mo_float_buffer,     \* float float_buffer[480], in units of 1/32768
    mo_window,           \* float_buffer as handed to the last suppressor call
    mo_out,              \* output samples: index -> [n, s], n writes so far
    mo_windows,
    \* ---- the recorder (unnamed/part_002)
    audio_buffer_pos, is_recording, is_paused,
    button_record, button_pause, button_stop,   \* sensitivity of the buttons
    rec_pc,              \* GTK thread of the recorder
    rec_device,          \* "uninit" | "stopped" | "started"
    rec_bad_ops,         \* device operations applied to an uninitialized device
    rec_calls,           \* invocations of data_callback so far
    rec_frameCount,      \* frameCount of the last invocation
    rec_pInput,          \* pInput of the last invocation
    rec_copied,          \* samples the last invocation copied
    rec_past_end,        \* a memcpy went past the end of audio_buffer
    sv_result,           \* outcome of the last on_save
    sv_data_size,        \* header.data_size of the file on_save wrote last
    sv_data_bytes        \* bytes of samples written after that header

appVars == <<is_processing, filter_enabled, device_initialized, rnnoise_state,
             status_label, start_sensitive, stop_sensitive, input_index,
             output_index, bandpass_filter1, bandpass_filter2>>
resVars == <<heap, created, device, context>>
cbVars == <<cb_pc, cb_i, cb_frameCount, cb_count, first_frame, last_win,
            cb_posts>>
faultVars == <<use_after_free, double_free, double_uninit>>
paVars == <<pa_pc, pa_len, pa_pos, pa_first, pa_written, pa_windows, pa_runs, pa_st,
           pa_fin, pa_fout, pa_out_created, pa_reject, pa_data_size, pa_opens,
           pa_closes, pa_creates, pa_destroys>>
dcVars == <<dc_pc, dc_active, dc_state, dc_is_processing, dc_pInput,
            dc_pOutput, dc_null_store, dc_calls, dc_path, dc_filter, dc_frameCount, dc_in, dc_delta,
            dc_narrow, dc_i, dc_to_process, dc_buffer, dc_processed, dc_volume,
            dc_out, dc_windows, dc_posts>>
bqVars == <<bq_n, bq_which, bq_in, bq_out>>
mxVars == <<mx_done, mx_l, mx_r, mx_float>>
moVars == <<mo_pc, mo_frameCount, mo_in, mo_delta, mo_i, mo_block,
            mo_float_buffer, mo_window, mo_out, mo_windows>>
recVars == <<audio_buffer_pos, is_recording, is_paused, button_record,
             button_pause, button_stop, rec_pc, rec_device, rec_bad_ops,
             rec_calls, rec_frameCount, rec_pInput, rec_copied, rec_past_end, sv_result,
             sv_data_size, sv_data_bytes>>
unitVars == <<bqVars, mxVars, moVars, recVars>>
vars == <<variant, appVars, resVars, ui_pc, ui_caller, vu_pending, cbVars,
          faultVars, paVars, dcVars, unitVars>>

\* C integer division by a positive divisor: the quotient truncates to zero.
CDiv(a, b) == IF a >= 0 THEN a \div b ELSE -((-a) \div b)

\* A BiquadFilter as main() leaves it (AppState state = {0}).  The float
\* fields are kept in fixed point: coefficients in thousandths, history and
\* samples in tenths.
ZeroFilter == [b0 |-> 0, b1 |-> 0, b2 |-> 0, a1 |-> 0, a2 |-> 0,
               x1 |-> 0, x2 |-> 0, y1 |-> 0, y2 |-> 0]

\* sinf(w0) and cosf(w0) for w0 = 2 * M_PI * f0 / fs, in thousandths, at
\* the two centre frequencies the program uses (fs / 24 and fs / 96).
SinCos(fs, f0) ==
    IF f0 * 24 = fs THEN [sin |-> 259, cos |-> 966]
                    ELSE [sin |-> 65, cos |-> 998]

\* Faulty form of biquad_init_bandpass: the history is left as it was.
biquad_init_bandpass_keeps_history(f, fs, f0, Q) ==
    LET alpha == CDiv(SinCos(fs, f0).sin, 2 * Q)
        a0 == 1000 + alpha
    IN [f EXCEPT !.b0 = CDiv(alpha * 1000, a0), !.b1 = 0,
                 !.b2 = CDiv((-alpha) * 1000, a0),
                 !.a1 = CDiv((-2) * SinCos(fs, f0).cos * 1000, a0),
                 !.a2 = CDiv((1000 - alpha) * 1000, a0)]

\* biquad_init_bandpass(f, fs, f0, Q): the five coefficients, normalized by
\* a0, and the history zeroed.
biquad_init_bandpass(f, fs, f0, Q) ==
    LET alpha == CDiv(SinCos(fs, f0).sin, 2 * Q)
        a0 == 1000 + alpha
    IN [b0 |-> CDiv(alpha * 1000, a0),
        b1 |-> CDiv(0 * 1000, a0),
        b2 |-> CDiv((-alpha) * 1000, a0),
        a1 |-> CDiv((-2) * SinCos(fs, f0).cos * 1000, a0),
        a2 |-> CDiv((1000 - alpha) * 1000, a0),
        x1 |-> 0, x2 |-> 0, y1 |-> 0, y2 |-> 0]

\* A coefficient times a sample.
Mul(c, v) == CDiv(c * v, 1000)

\* Faulty form of biquad_process: x1 overwritten before it is moved to x2.
biquad_process_shift_late(f, in) ==
    LET out == Mul(f.b0, in) + Mul(f.b1, f.x1) + Mul(f.b2, f.x2)
                 - Mul(f.a1, f.y1) - Mul(f.a2, f.y2)
    IN [f |-> [f EXCEPT !.x1 = in, !.x2 = in, !.y2 = f.y1, !.y1 = out],
        out |-> out]

\* biquad_process(f, in): the filter it leaves and the value it returns.
biquad_process(f, in) ==
    LET out == Mul(f.b0, in) + Mul(f.b1, f.x1) + Mul(f.b2, f.x2)
                 - Mul(f.a1, f.y1) - Mul(f.a2, f.y2)
    IN [f |-> [f EXCEPT !.x2 = f.x1, !.x1 = in, !.y2 = f.y1, !.y1 = out],
        out |-> out]

NoWin == [kind |-> "none", idx |-> 0, written |-> FALSE]

\* ---------------------------------------------------------- initial state
InitApp ==
    /\ is_processing = FALSE
    /\ filter_enabled = (variant # "part_001")
    /\ device_initialized = FALSE
    /\ rnnoise_state = NULL
    /\ status_label = IF variant = "part_001" THEN "Click Start to begin"
                      ELSE "Select devices and click Start"
    /\ start_sensitive = TRUE
    /\ stop_sensitive = FALSE
    \* populate_device_lists: index 0 when a device exists, -1 otherwise
    /\ input_index \in IF variant = "part_001" THEN {0} ELSE {-1, 0}
    /\ output_index \in IF variant = "part_001" THEN {0} ELSE {-1, 0}
    /\ bandpass_filter1 = ZeroFilter
    /\ bandpass_filter2 = ZeroFilter

\* A count for each of the two files of process_audio.
NoFiles == [fin |-> 0, fout |-> 0]

InitFile ==
    /\ pa_pc = "idle"
    /\ pa_len = 0
    /\ pa_pos = 0
    /\ pa_first = TRUE
    /\ pa_written = 0
    /\ pa_windows = {}
    /\ pa_runs = 0
    /\ pa_st = "none"
    /\ pa_fin = "closed"
    /\ pa_fout = "closed"
    /\ pa_out_created = FALSE
    /\ pa_reject = "none"
    /\ pa_data_size = 0
    /\ pa_opens = NoFiles
    /\ pa_closes = NoFiles
    /\ pa_creates = 0
    /\ pa_destroys = 0

\* Output frames 0 .. OutFrames-1 are watched; the device owns the first
\* frameCount of them.
OutFrames == MaxFrameCount + RNNOISE_FRAME_SIZE
Window == 0..(RNNOISE_FRAME_SIZE - 1)
ZeroBuffer == [j \in Window |-> 0]
NoOutput == [k \in 0..(OutFrames - 1) |-> [n |-> 0, l |-> 0, r |-> 0]]
\* The arrays of an invocation before the invocation exists.
NoArray == <<>>

InitDetail ==
    /\ dc_pc = "idle"
    /\ dc_active = FALSE
    /\ dc_state = "valid"
    /\ dc_is_processing = FALSE
    /\ dc_pInput = "valid"
    /\ dc_pOutput = "valid"
    /\ dc_null_store = FALSE
    /\ dc_calls = 0
    /\ dc_path = "none"
    /\ dc_filter = FALSE
    /\ dc_frameCount = 0
    /\ dc_in = [l |-> 0, r |-> 0]
    /\ dc_delta = 0
    /\ dc_narrow = "wrap"
    /\ dc_i = 0
    /\ dc_to_process = 0
    /\ dc_buffer = NoArray
    /\ dc_processed = NoArray
    /\ dc_volume = [sum |-> [hi |-> 0, lo |-> 0], n |-> 1]
    /\ dc_out = NoArray
    /\ dc_windows = 0
    /\ dc_posts = 0

InitUnits ==
    /\ bq_n = 0
    /\ bq_which = 1
    /\ bq_in = 0
    /\ bq_out = 0
    /\ mx_done = FALSE
    /\ mx_l = 0
    /\ mx_r = 0
    /\ mx_float = 0
    /\ mo_pc = "idle"
    /\ mo_frameCount = 0
    /\ mo_in = 0
    /\ mo_delta = 0
    /\ mo_i = 0
    /\ mo_block = 0
    /\ mo_float_buffer = NoArray
    /\ mo_window = NoArray
    /\ mo_out = NoArray
    /\ mo_windows = 0

\* The recorder when gtk_main is entered: the statics as initialized, the
\* default capture device initialized and not started, Pause and Stop
\* insensitive.
InitRecorder ==
    /\ audio_buffer_pos = 0
    /\ is_recording = FALSE
    /\ is_paused = FALSE
    /\ button_record = TRUE
    /\ button_pause = FALSE
    /\ button_stop = FALSE
    /\ rec_pc = "idle"
    /\ rec_device = "stopped"
    /\ rec_bad_ops = {}
    /\ rec_calls = 0
    /\ rec_frameCount = 0
    /\ rec_pInput = "valid"
    /\ rec_copied = 0
    /\ rec_past_end = FALSE
    /\ sv_result = "none"
    /\ sv_data_size = 0
    /\ sv_data_bytes = 0

Init ==
    /\ variant \in Variants
    /\ InitApp
    /\ heap = <<>>
    /\ created = 0
    /\ device = "uninit"
    /\ context = "live"
    /\ ui_pc = "idle"
    /\ ui_caller = "none"
    /\ vu_pending = 0
    /\ cb_pc = "idle"
    /\ cb_i = 0
    /\ cb_frameCount = 0
    /\ cb_count = 0
    /\ first_frame = TRUE
    /\ last_win = NoWin
    /\ cb_posts = 0
    /\ use_after_free = FALSE
    /\ double_free = FALSE
    /\ double_uninit = FALSE
    /\ InitFile
    /\ InitDetail
    /\ InitUnits
    /\ InitRecorder

\* ------------------------------------------------------ library operations
Live == DOMAIN heap

\* rnnoise_destroy(p): frees p; freeing a pointer that is not live is a double free.
HeapAfterDestroy(p) == [q \in Live \ {p} |-> heap[q]]
DestroyFault(p) == p # NULL /\ p \notin Live

\* ------------------------------------------------- start_processing (GTK)
OnStart ==
    /\ ui_pc = "idle"
    /\ start_sensitive
    /\ ui_pc' = "start_check"
    /\ ui_caller' = "on_start"
    /\ UNCHANGED <<variant, appVars, resVars, vu_pending, cbVars, faultVars, paVars, dcVars, unitVars>>

\* Faulty form of NoSelection: the test written with && instead of ||.
NoSelectionBoth == input_index < 0 /\ output_index < 0

\* The device-selection test of start_processing.
NoSelection == input_index < 0 \/ output_index < 0

StartCheck ==
    /\ ui_pc = "start_check"
    /\ IF variant # "part_001" /\ NoSelection
       THEN /\ status_label' = "Select input/output devices"
            /\ ui_pc' = "idle"
       ELSE /\ status_label' = status_label
            /\ ui_pc' = "start_create"
    /\ UNCHANGED <<variant, is_processing, filter_enabled, device_initialized,
                   rnnoise_state, start_sensitive, stop_sensitive, input_index,
                   output_index, bandpass_filter1, bandpass_filter2, resVars,
                   ui_caller, vu_pending, cbVars, faultVars, paVars, dcVars, unitVars>>

StartCreate ==
    /\ ui_pc = "start_create"
    /\ \E ok \in BOOLEAN :
         IF ok
         THEN /\ created < MaxSessions
              /\ created' = created + 1
              /\ rnnoise_state' = created + 1
              /\ heap' = [q \in Live \cup {created + 1} |->
                            IF q = created + 1 THEN 0 ELSE heap[q]]
              /\ status_label' = status_label
              /\ ui_pc' = "start_init"
         ELSE /\ rnnoise_state' = NULL
              /\ status_label' = IF variant = "part_001"
                                 THEN "Failed to initialize RNNoise"
                                 ELSE "Failed to init RNNoise"
              /\ ui_pc' = "idle"
              /\ UNCHANGED <<heap, created>>
    /\ UNCHANGED <<variant, is_processing, filter_enabled, device_initialized,
                   start_sensitive, stop_sensitive, input_index, output_index,
                   bandpass_filter1, bandpass_filter2, device, context,
                   ui_caller, vu_pending, cbVars, faultVars, paVars, dcVars, unitVars>>

StartInit ==
    /\ ui_pc = "start_init"
    /\ \E ok \in BOOLEAN :
         IF ok
         THEN /\ device' = "inited"
              /\ device_initialized' = TRUE
              /\ ui_pc' = "start_start"
              /\ UNCHANGED <<status_label, heap, rnnoise_state, double_free>>
         ELSE /\ status_label' = "Failed to init device"
              /\ heap' = HeapAfterDestroy(rnnoise_state)
              /\ double_free' = (double_free \/ DestroyFault(rnnoise_state))
              /\ rnnoise_state' = IF variant = "part_001" THEN NULL ELSE rnnoise_state
              /\ ui_pc' = "idle"
              /\ UNCHANGED <<device, device_initialized>>
    /\ UNCHANGED <<variant, is_processing, filter_enabled, start_sensitive,
                   stop_sensitive, input_index, output_index, bandpass_filter1,
                   bandpass_filter2, created, context, ui_caller, vu_pending,
                   cbVars, use_after_free, double_uninit, paVars, dcVars, unitVars>>

\* Faulty form of ReleaseAfterStartFailure: the device is left initialized.
ReleaseAfterStartFailureNoUninit ==
    /\ UNCHANGED <<device, double_uninit>>
    /\ heap' = HeapAfterDestroy(rnnoise_state)
    /\ double_free' = (double_free \/ DestroyFault(rnnoise_state))

\* ma_device_uninit, then rnnoise_destroy, after ma_device_start failed.
ReleaseAfterStartFailure ==
    /\ device' = "uninit"
    /\ double_uninit' = (double_uninit \/ device = "uninit")
    /\ heap' = HeapAfterDestroy(rnnoise_state)
    /\ double_free' = (double_free \/ DestroyFault(rnnoise_state))

StartStart ==
    /\ ui_pc = "start_start"
    /\ \E ok \in BOOLEAN :
         IF ok
         THEN /\ device' = "started"
              /\ ui_pc' = "start_set"
              /\ UNCHANGED <<status_label, heap, rnnoise_state, double_free,
                             double_uninit>>
         ELSE /\ status_label' = "Failed to start device"
              /\ ReleaseAfterStartFailure
              /\ rnnoise_state' = IF variant = "part_001" THEN NULL ELSE rnnoise_state
              /\ ui_pc' = "idle"
    /\ UNCHANGED <<variant, is_processing, filter_enabled, device_initialized,
                   start_sensitive, stop_sensitive, input_index, output_index,
                   bandpass_filter1, bandpass_filter2, created, context,
                   ui_caller, vu_pending, cbVars, use_after_free, paVars, dcVars, unitVars>>

\* Faulty form of StartSet: the Start button is left sensitive.
StartSetLeavesStartSensitive ==
    /\ ui_pc = "start_set"
    /\ is_processing' = TRUE
    /\ status_label' = "Processing..."
    /\ stop_sensitive' = TRUE
    /\ ui_pc' = "idle"
    /\ UNCHANGED <<variant, filter_enabled, device_initialized, rnnoise_state,
                   start_sensitive, input_index, output_index, bandpass_filter1,
                   bandpass_filter2, resVars, ui_caller, vu_pending, cbVars,
                   faultVars, paVars, dcVars, unitVars>>

StartSet ==
    /\ ui_pc = "start_set"
    /\ is_processing' = TRUE
    /\ status_label' = "Processing..."
    /\ start_sensitive' = FALSE
    /\ stop_sensitive' = TRUE
    /\ ui_pc' = "idle"
    /\ UNCHANGED <<variant, filter_enabled, device_initialized, rnnoise_state,
                   input_index, output_index, bandpass_filter1, bandpass_filter2,
                   resVars, ui_caller, vu_pending, cbVars, faultVars, paVars, dcVars, unitVars>>

\* -------------------------------------------------- stop_processing (GTK)
StopReturn == IF ui_caller = "on_window_destroy" THEN "destroy_ctx" ELSE "idle"

OnStop ==
    /\ ui_pc = "idle"
    /\ stop_sensitive
    /\ ui_pc' = "stop_check"
    /\ ui_caller' = "on_stop"
    /\ UNCHANGED <<variant, appVars, resVars, vu_pending, cbVars, faultVars, paVars, dcVars, unitVars>>

\* Faulty form of StopGuard: stop_processing without its is_processing test.
StopGuardAlways == TRUE

\* The test that guards the body of stop_processing.
StopGuard == is_processing

StopCheck ==
    /\ ui_pc = "stop_check"
    /\ ui_pc' = IF StopGuard THEN "stop_uninit" ELSE StopReturn
    /\ UNCHANGED <<variant, appVars, resVars, ui_caller, vu_pending, cbVars,
                   faultVars, paVars, dcVars, unitVars>>

\* Faulty form of StopUninit: the flag is cleared but ma_device_uninit is not called.
StopUninitSkipsDevice ==
    /\ ui_pc = "stop_uninit"
    /\ device_initialized' = FALSE
    /\ ui_pc' = "stop_destroy"
    /\ UNCHANGED <<variant, is_processing, filter_enabled, rnnoise_state,
                   status_label, start_sensitive, stop_sensitive, input_index,
                   output_index, bandpass_filter1, bandpass_filter2, resVars,
                   ui_caller, vu_pending, cbVars, faultVars, paVars, dcVars, unitVars>>

\* ma_device_uninit stops the device and joins the audio thread: it returns
\* only when no callback is in flight, and none starts afterwards.
StopUninit ==
    /\ ui_pc = "stop_uninit"
    /\ IF device_initialized
       THEN /\ cb_pc = "idle"
            /\ device' = "uninit"
            /\ double_uninit' = (double_uninit \/ device = "uninit")
            /\ device_initialized' = FALSE
       ELSE UNCHANGED <<device, double_uninit, device_initialized>>
    /\ ui_pc' = "stop_destroy"
    /\ UNCHANGED <<variant, is_processing, filter_enabled, rnnoise_state,
                   status_label, start_sensitive, stop_sensitive, input_index,
                   output_index, bandpass_filter1, bandpass_filter2, heap,
                   created, context, ui_caller, vu_pending, cbVars,
                   use_after_free, double_free, paVars, dcVars, unitVars>>

\* Faulty form of StopDestroy: the pointer is cleared but the state is not destroyed.
StopDestroyLeaks ==
    /\ ui_pc = "stop_destroy"
    /\ rnnoise_state' = NULL
    /\ ui_pc' = "stop_clear"
    /\ UNCHANGED <<variant, is_processing, filter_enabled, device_initialized,
                   status_label, start_sensitive, stop_sensitive, input_index,
                   output_index, bandpass_filter1, bandpass_filter2, resVars,
                   ui_caller, vu_pending, cbVars, faultVars, paVars, dcVars, unitVars>>

StopDestroy ==
    /\ ui_pc = "stop_destroy"
    /\ IF rnnoise_state # NULL
       THEN /\ heap' = HeapAfterDestroy(rnnoise_state)
            /\ double_free' = (double_free \/ DestroyFault(rnnoise_state))
            /\ rnnoise_state' = NULL
       ELSE UNCHANGED <<heap, double_free, rnnoise_state>>
    /\ ui_pc' = "stop_clear"
    /\ UNCHANGED <<variant, is_processing, filter_enabled, device_initialized,
                   status_label, start_sensitive, stop_sensitive, input_index,
                   output_index, bandpass_filter1, bandpass_filter2, created,
                   device, context, ui_caller, vu_pending, cbVars,
                   use_after_free, double_uninit, paVars, dcVars, unitVars>>

\* Faulty form of StopClear: the status label is left as it was.
StopClearKeepsLabel ==
    /\ ui_pc = "stop_clear"
    /\ is_processing' = FALSE
    /\ start_sensitive' = TRUE
    /\ stop_sensitive' = FALSE
    /\ ui_pc' = StopReturn
    /\ UNCHANGED <<variant, filter_enabled, device_initialized, rnnoise_state,
                   status_label, input_index, output_index, bandpass_filter1,
                   bandpass_filter2, resVars, ui_caller, vu_pending, cbVars,
                   faultVars, paVars, dcVars, unitVars>>

StopClear ==
    /\ ui_pc = "stop_clear"
    /\ is_processing' = FALSE
    /\ status_label' = "Stopped"
    /\ start_sensitive' = TRUE
    /\ stop_sensitive' = FALSE
    /\ ui_pc' = StopReturn
    /\ UNCHANGED <<variant, filter_enabled, device_initialized, rnnoise_state,
                   input_index, output_index, bandpass_filter1, bandpass_filter2,
                   resVars, ui_caller, vu_pending, cbVars, faultVars, paVars, dcVars, unitVars>>

\* ------------------------------------------------ on_window_destroy (GTK)
\* Faulty form of OnWindowDestroy: the context is released without stop_processing.
OnWindowDestroyNoStop ==
    /\ ui_pc = "idle"
    /\ ui_pc' = "destroy_ctx"
    /\ ui_caller' = "on_window_destroy"
    /\ UNCHANGED <<variant, appVars, resVars, vu_pending, cbVars, faultVars, paVars, dcVars, unitVars>>

OnWindowDestroy ==
    /\ ui_pc = "idle"
    /\ ui_pc' = "stop_check"
    /\ ui_caller' = "on_window_destroy"
    /\ UNCHANGED <<variant, appVars, resVars, vu_pending, cbVars, faultVars, paVars, dcVars, unitVars>>

DestroyCtx ==
    /\ ui_pc = "destroy_ctx"
    /\ context' = IF variant = "part_001" THEN context ELSE "released"
    /\ ui_pc' = "quit"
    /\ UNCHANGED <<variant, appVars, heap, created, device, ui_caller,
                   vu_pending, cbVars, faultVars, paVars, dcVars, unitVars>>

\* ------------------------------------------------- on_filter_toggle (GTK)
OnFilterToggle ==
    /\ ui_pc = "idle"
    /\ variant # "part_001"
    /\ filter_enabled' = ~filter_enabled
    /\ IF filter_enabled'
       THEN /\ bandpass_filter1' =
                   biquad_init_bandpass(bandpass_filter1, SAMPLE_RATE, 500, 2)
            /\ bandpass_filter2' =
                   biquad_init_bandpass(bandpass_filter2, SAMPLE_RATE, 2000, 2)
       ELSE UNCHANGED <<bandpass_filter1, bandpass_filter2>>
    /\ UNCHANGED <<variant, is_processing, device_initialized, rnnoise_state,
                   status_label, start_sensitive, stop_sensitive, input_index,
                   output_index, resVars, ui_pc, ui_caller, vu_pending, cbVars,
                   faultVars, paVars, dcVars, unitVars>>

\* -------------------------------------------------- update_vu_meter (GTK)
UpdateVuMeter ==
    /\ ui_pc = "idle"
    /\ vu_pending > 0
    /\ vu_pending' = vu_pending - 1
    /\ UNCHANGED <<variant, appVars, resVars, ui_pc, ui_caller, cbVars,
                   faultVars, paVars, dcVars, unitVars>>

\* ------------------------------------------- duplex_callback (audio thread)
\* The guard of the callback: silence unless the session is active.  The
\* duplex device hands the callback non-null pUserData, pInput and pOutput,
\* so of the four tests only is_processing can send it to the zero fill.
CallbackInactive ==
    \/ ~is_processing
    \/ (variant = "part_001" /\ rnnoise_state = NULL)

CallbackEnter ==
    /\ device = "started"
    /\ cb_pc = "idle"
    /\ cb_count < MaxCallbacks
    /\ cb_count' = cb_count + 1
    /\ cb_posts' = 0
    /\ \E n \in FrameCounts :
         IF CallbackInactive
         THEN /\ last_win' = [kind |-> "zero", idx |-> 0, written |-> TRUE]
              /\ UNCHANGED <<cb_pc, cb_i, cb_frameCount>>
         ELSE /\ cb_pc' = "loop"
              /\ cb_i' = 0
              /\ cb_frameCount' = n
              /\ UNCHANGED last_win
    /\ UNCHANGED <<variant, appVars, resVars, ui_pc, ui_caller, vu_pending,
                   first_frame, faultVars, paVars, dcVars, unitVars>>

\* rnnoise_process_frame(state->rnnoise_state, ...): one more frame through
\* the state the pointer names; a pointer to no live state is a fault.
ProcessFrame ==
    IF rnnoise_state \in Live
    THEN /\ heap' = [heap EXCEPT ![rnnoise_state] = @ + 1]
         /\ UNCHANGED use_after_free
    ELSE /\ use_after_free' = TRUE
         /\ UNCHANGED heap

FramesSoFar == IF rnnoise_state \in Live THEN heap[rnnoise_state] ELSE 0

\* Whether the window just suppressed is skipped as the warm-up window.
SkipWarmup == variant = "part_000" /\ first_frame

\* Faulty form of PostsVuUpdate: the post placed inside the filter branch.
PostsVuUpdateFilteredOnly ==
    variant # "part_001" /\ filter_enabled /\ ~SkipWarmup

\* Whether a pass of the window loop reaches g_malloc / g_idle_add_full:
\* the mono tool has no meter, and the warm-up "continue" of part_000
\* leaves the pass before the post.  g_malloc does not return NULL.
PostsVuUpdate ==
    variant # "part_001" /\ ~(filter_enabled /\ SkipWarmup)

\* Faulty form of IdleAddReady: a queue of one slot that the poster waits on.
IdleAddReadyWhenDrained == vu_pending = 0

\* g_idle_add_full attaches a source to the default main context and
\* returns: it takes no bound on the sources attached and waits for no
\* dispatch.
IdleAddReady == TRUE

\* One pass of the window loop of duplex_callback.
CallbackWindow ==
    /\ cb_pc = "loop"
    /\ cb_i < cb_frameCount
    /\ PostsVuUpdate => IdleAddReady
    /\ IF variant = "part_001" \/ filter_enabled
       THEN /\ ProcessFrame
            /\ last_win' = [kind |-> "filtered", idx |-> FramesSoFar,
                            written |-> ~SkipWarmup]
            /\ first_frame' = IF variant = "part_000" THEN FALSE ELSE first_frame
       ELSE /\ last_win' = [kind |-> "bypass", idx |-> 0, written |-> TRUE]
            /\ UNCHANGED <<heap, use_after_free, first_frame>>
    /\ vu_pending' = IF PostsVuUpdate THEN vu_pending + 1 ELSE vu_pending
    /\ cb_posts' = IF PostsVuUpdate THEN cb_posts + 1 ELSE cb_posts
    /\ cb_i' = cb_i + RNNOISE_FRAME_SIZE
    /\ cb_pc' = IF cb_i' < cb_frameCount THEN "loop" ELSE "idle"
    /\ UNCHANGED <<variant, appVars, created, device, context, ui_pc,
                   ui_caller, cb_frameCount, cb_count, double_free,
                   double_uninit, paVars, dcVars, unitVars>>

Next ==
    \/ OnStart \/ StartCheck \/ StartCreate \/ StartInit \/ StartStart \/ StartSet
    \/ OnStop \/ StopCheck \/ StopUninit \/ StopDestroy \/ StopClear
    \/ OnWindowDestroy \/ DestroyCtx
    \/ OnFilterToggle \/ UpdateVuMeter
    \/ CallbackEnter \/ CallbackWindow

Spec == Init /\ [][Next]_vars

\* ------------------------------------------- process_audio (rnnoise_gui.c)
lifeVars == <<variant, appVars, resVars, ui_pc, ui_caller, vu_pending, cbVars,
              faultVars>>

Min(a, b) == IF a < b THEN a ELSE b

\* The checks of process_audio in the order the code makes them; "none"
\* stands for an input that passes them all.
Rejections == <<"empty_path", "open_input", "read_header", "bad_tags",
                "bad_format", "open_output", "write_header", "create_state">>
RejectionIndex(r) == CHOOSE k \in 1..Len(Rejections) : Rejections[k] = r

\* Files that fopen has opened when check r turns the request down.
OpenedAt(r) ==
    IF r \in {"empty_path", "open_input"} THEN {}
    ELSE IF r \in {"read_header", "bad_tags", "bad_format", "open_output"}
    THEN {"fin"}
    ELSE {"fin", "fout"}

\* Faulty form of ClosedOn: the input left open when the header cannot be
\* written.
ClosedOnLeavesInput(r) ==
    IF r \in {"empty_path", "open_input"} THEN {}
    ELSE IF r \in {"read_header", "bad_tags", "bad_format", "open_output"}
    THEN {"fin"}
    ELSE IF r = "write_header" THEN {"fout"}
    ELSE {"fin", "fout"}

\* Files given to fclose on the path of check r.
ClosedOn(r) ==
    IF r \in {"empty_path", "open_input"} THEN {}
    ELSE IF r \in {"read_header", "bad_tags", "bad_format", "open_output"}
    THEN {"fin"}
    ELSE {"fin", "fout"}

Count(files) == [f \in {"fin", "fout"} |-> IF f \in files THEN 1 ELSE 0]

\* Faulty form of FirstAtEntry: the warm-up flag kept across invocations
\* (a static flag, as in the duplex callback).
FirstAtEntryKept == pa_first

\* gboolean first = TRUE;
FirstAtEntry == TRUE

\* Everything up to the frame loop: validation, opening the files, writing
\* the header, creating the state.  A rejection closes what was opened.
ProcessAudioBegin ==
    /\ pa_pc \in {"idle", "done", "rejected"}
    /\ pa_runs < MaxRuns
    /\ pa_runs' = pa_runs + 1
    /\ \/ \E len \in 0..MaxFileSamples :
            /\ pa_len' = len
            /\ pa_out_created' = TRUE
            /\ pa_pc' = "loop"
            /\ pa_fin' = "open"
            /\ pa_fout' = "open"
            /\ pa_st' = "live"
            /\ pa_reject' = "none"
            /\ pa_data_size' = 2 * len
            /\ pa_opens' = Count({"fin", "fout"})
            /\ pa_closes' = NoFiles
            /\ pa_creates' = 1
       \/ \E k \in 1..Len(Rejections) :
            /\ pa_len' = 0
            /\ pa_out_created' = (k > RejectionIndex("open_output"))
            /\ pa_pc' = "rejected"
            /\ pa_fin' = IF "fin" \in OpenedAt(Rejections[k]) \ ClosedOn(Rejections[k])
                         THEN "open" ELSE "closed"
            /\ pa_fout' = IF "fout" \in OpenedAt(Rejections[k]) \ ClosedOn(Rejections[k])
                          THEN "open" ELSE "closed"
            /\ pa_st' = "none"
            /\ pa_reject' = Rejections[k]
            /\ pa_data_size' = 0
            /\ pa_opens' = Count(OpenedAt(Rejections[k]))
            /\ pa_closes' = Count(ClosedOn(Rejections[k]))
            /\ pa_creates' = 0
    /\ pa_pos' = 0
    /\ pa_written' = 0
    /\ pa_windows' = {}
    /\ pa_first' = FirstAtEntry
    /\ pa_destroys' = 0
    /\ UNCHANGED <<lifeVars, dcVars, unitVars>>

\* One pass of the frame loop: fread of up to FRAME_SIZE samples, zero
\* padding, rnnoise_process_frame, clipping, fwrite unless it is the first
\* frame.  A short read sets end-of-file and ends the loop.
ProcessAudioFrame ==
    /\ pa_pc = "loop"
    /\ LET read == Min(FRAME_SIZE, pa_len - pa_pos) IN
         IF read = 0
         THEN /\ pa_pc' = "cleanup"
              /\ UNCHANGED <<pa_pos, pa_first, pa_written, pa_windows>>
         ELSE /\ pa_written' = IF pa_first THEN pa_written ELSE pa_written + read
              /\ pa_windows' = IF pa_first THEN pa_windows
                                ELSE pa_windows \cup {pa_pos \div FRAME_SIZE}
              /\ pa_first' = FALSE
              /\ pa_pos' = pa_pos + read
              /\ pa_pc' = IF read < FRAME_SIZE THEN "cleanup" ELSE "loop"
    /\ UNCHANGED <<pa_len, pa_runs, pa_st, pa_fin, pa_fout, pa_out_created,
                   pa_reject, pa_data_size, pa_opens, pa_closes, pa_creates,
                   pa_destroys>>
    /\ UNCHANGED <<lifeVars, dcVars, unitVars>>

\* rnnoise_destroy, fclose, fclose.
ProcessAudioCleanup ==
    /\ pa_pc = "cleanup"
    /\ pa_st' = "destroyed"
    /\ pa_fin' = "closed"
    /\ pa_fout' = "closed"
    /\ pa_pc' = "done"
    /\ pa_destroys' = pa_destroys + 1
    /\ pa_closes' = [f \in DOMAIN pa_closes |-> pa_closes[f] + 1]
    /\ UNCHANGED <<pa_len, pa_pos, pa_first, pa_written, pa_windows, pa_runs,
                   pa_out_created, pa_reject, pa_data_size, pa_opens,
                   pa_creates>>
    /\ UNCHANGED <<lifeVars, dcVars, unitVars>>

NextFile == ProcessAudioBegin \/ ProcessAudioFrame \/ ProcessAudioCleanup

InitFileTool ==
    /\ Init
    /\ variant = "audio_denoiser"
    /\ input_index = 0
    /\ output_index = 0

SpecFile == InitFileTool /\ [][NextFile]_vars

\* ------------------- duplex_callback of audio_denoiser.c, sample by sample
\* Frame counts taken: those within NearWindow of a multiple of the window.
DetailFrameCounts ==
    {n \in 1..MaxFrameCount :
        \/ n % RNNOISE_FRAME_SIZE <= NearWindow
        \/ n % RNNOISE_FRAME_SIZE >= RNNOISE_FRAME_SIZE - NearWindow}

\* Input buffers taken: frame k is built from the pair (l, r) of the buffer,
\* so that frames differ by position and the pair itself appears.
InputPairs ==
    {[l |-> 0, r |-> 0], [l |-> 32767, r |-> -32768],
     [l |-> -32768, r |-> -32768], [l |-> 32767, r |-> 32767],
     [l |-> 1000, r |-> -1000], [l |-> 100, r |-> 0], [l |-> -3, r |-> 0]}

\* What rnnoise_process_frame adds to each sample, in tenths of a unit: the
\* library is free to return values outside the 16-bit range.
Deltas == {0, 4, -6, 30000, -30000}

\* What a build makes of (int16_t)f for f outside the 16-bit range.
Narrowings == {"wrap", "saturate"}

Int16 == -32768..32767

\* (int16_t)x for a 32-bit integer x.
Narrow16(x) == ((x + 32768) % 65536) - 32768

\* in[k * 2] and in[k * 2 + 1]
InL(k) == IF k % 3 = 2 THEN CDiv(dc_in.l, 2) ELSE dc_in.l
InR(k) == IF k % 2 = 1 THEN CDiv(dc_in.r, 4) ELSE dc_in.r

\* Faulty form of Downmix: only the right channel halved.
DownmixHalfRight(l, r) == Narrow16(l + CDiv(r, 2))

\* int16_t mono = (int16_t)((l + r) / 2), l and r held in int32_t.
Downmix(l, r) == Narrow16(CDiv(l + r, 2))

\* Faulty form of ToProcess: the window handled whole whatever remains.
ToProcessWhole(remaining) == RNNOISE_FRAME_SIZE

\* Faulty form of ToProcess: the remainder of the division by the window.
ToProcessModulo(remaining) == remaining % RNNOISE_FRAME_SIZE

\* to_process = (remaining > RNNOISE_FRAME_SIZE) ? RNNOISE_FRAME_SIZE : remaining
ToProcess(remaining) ==
    IF remaining > RNNOISE_FRAME_SIZE THEN RNNOISE_FRAME_SIZE ELSE remaining

\* The PCM-to-float loop over j < to_process, on the buffer declared = {0}.
ConvertPcm(buf, i, tp) ==
    [j \in Window |-> IF j < tp THEN Downmix(InL(i + j), InR(i + j)) ELSE buf[j]]

\* The zero-padding loop over to_process <= j < RNNOISE_FRAME_SIZE.
ZeroPad(buf, tp) == [j \in Window |-> IF j >= tp THEN 0 ELSE buf[j]]

\* The float accumulator "volume" holds sums beyond 32 bits: it is kept as
\* hi * 2^20 + lo with 0 <= lo < 2^20.
Wide(hi, lo) == [hi |-> hi + (lo \div 1048576), lo |-> lo % 1048576]
WideOf(p) == Wide(p \div 1048576, p % 1048576)
WideAdd(a, b) == Wide(a.hi + b.hi, a.lo + b.lo)
WideZero == [hi |-> 0, lo |-> 0]

\* volume += l * r, over the frames from .. to-1 of the input; the sum is
\* taken by halves, which leaves an integer sum as it is.
RECURSIVE AccumulateVolume(_, _)
AccumulateVolume(from, to) ==
    IF to <= from THEN WideZero
    ELSE IF to = from + 1 THEN WideOf(InL(from) * InR(from))
    ELSE LET mid == (from + to) \div 2
         IN WideAdd(AccumulateVolume(from, mid), AccumulateVolume(mid, to))

\* The operand of sqrtf in volume = sqrtf(volume / to_process) / 32768.0f.
Radicand(i, tp) == [sum |-> AccumulateVolume(i, i + tp), n |-> tp]

\* rnnoise_process_frame(state->rnnoise_state, buffer, buffer), in tenths.
Suppress(buf) == [j \in Window |-> 10 * buf[j] + dc_delta]

\* (int16_t)buffer[j]: the fraction is dropped; a value that does not fit
\* is undefined, and the build either keeps the low 16 bits or saturates.
FloatToInt16(tenths) ==
    LET t == CDiv(tenths, 10) IN
      IF t \in Int16 THEN t
      ELSE IF dc_narrow = "wrap" THEN Narrow16(t)
      ELSE IF t > 32767 THEN 32767 ELSE -32768

\* Faulty form of WriteFrames: the whole window written, padding included.
WriteFramesWholeWindow(out, i, tp, samples) ==
    [k \in DOMAIN out |->
        IF k >= i /\ k < i + RNNOISE_FRAME_SIZE
        THEN [n |-> out[k].n + 1, l |-> samples[k - i], r |-> samples[k - i]]
        ELSE out[k]]

\* Faulty form of WriteFrames: only the left sample of a frame stored.
WriteFramesLeftOnly(out, i, tp, samples) ==
    [k \in DOMAIN out |->
        IF k >= i /\ k < i + tp
        THEN [n |-> out[k].n + 1, l |-> samples[k - i], r |-> out[k].r]
        ELSE out[k]]

\* out[(i + j) * 2] = sample; out[(i + j) * 2 + 1] = sample; for j < to_process
WriteFrames(out, i, tp, samples) ==
    [k \in DOMAIN out |->
        IF k >= i /\ k < i + tp
        THEN [n |-> out[k].n + 1, l |-> samples[k - i], r |-> samples[k - i]]
        ELSE out[k]]

\* Faulty form of ZeroFill: the byte count of one channel, as in the mono tool.
ZeroFillOneChannel(out, frameCount) ==
    [k \in DOMAIN out |->
        IF k < frameCount \div 2
        THEN [n |-> out[k].n + 1, l |-> 0, r |-> 0] ELSE out[k]]

\* memset(pOutput, 0, frameCount * 2 * sizeof(int16_t))
ZeroFill(out, frameCount) ==
    [k \in DOMAIN out |->
        IF k < frameCount THEN [n |-> out[k].n + 1, l |-> 0, r |-> 0] ELSE out[k]]

Pointers == {"null", "valid"}

\* !state || !state->is_processing || !pInput || !pOutput
GuardFails(st, processing, pIn, pOut) ==
    \/ st = "null"
    \/ ~processing
    \/ pIn = "null"
    \/ pOut = "null"

\* Entry of the callback: the guard, and the memset it runs when it fails.
\* The memset is given pOutput whatever the test that failed: with a null
\* pOutput it stores through the null pointer.
DuplexEnter ==
    /\ dc_pc = "idle"
    /\ \E n \in DetailFrameCounts, in \in InputPairs, st \in Pointers,
          processing \in BOOLEAN, pIn \in Pointers, pOut \in Pointers :
         /\ dc_frameCount' = n
         /\ dc_in' = in
         /\ dc_state' = st
         /\ dc_is_processing' = processing
         /\ dc_pInput' = pIn
         /\ dc_pOutput' = pOut
         /\ dc_active' = ~GuardFails(st, processing, pIn, pOut)
         /\ IF ~GuardFails(st, processing, pIn, pOut)
            THEN /\ dc_filter' \in BOOLEAN
                 /\ dc_delta' \in Deltas
                 /\ dc_narrow' \in Narrowings
                 /\ dc_pc' = "loop"
                 /\ dc_out' = NoOutput
                 /\ UNCHANGED dc_null_store
            ELSE /\ IF pOut = "null"
                    THEN dc_null_store' = TRUE /\ dc_out' = NoOutput
                    ELSE /\ dc_out' = ZeroFill(NoOutput, n)
                         /\ UNCHANGED dc_null_store
                 /\ dc_pc' = "done"
                 /\ UNCHANGED <<dc_filter, dc_delta, dc_narrow>>
    /\ dc_i' = 0
    /\ dc_buffer' = ZeroBuffer
    /\ dc_processed' = ZeroBuffer
    /\ UNCHANGED <<dc_to_process, dc_volume, dc_windows, dc_posts, dc_calls,
                   dc_path>>
    /\ UNCHANGED <<lifeVars, paVars, unitVars>>

\* on_filter_toggle running on the GTK thread while the invocation is in
\* its loop: the next read of state->filter_enabled sees the new value.
DuplexToggle ==
    /\ dc_pc = "loop"
    /\ dc_filter' = ~dc_filter
    /\ UNCHANGED <<dc_pc, dc_active, dc_state, dc_is_processing, dc_pInput,
                   dc_pOutput, dc_null_store, dc_calls, dc_path, dc_frameCount,
                   dc_in, dc_delta, dc_narrow, dc_i, dc_to_process, dc_buffer,
                   dc_processed, dc_volume, dc_out, dc_windows, dc_posts>>
    /\ UNCHANGED <<lifeVars, paVars, unitVars>>

\* Faulty form of SuppressorCalls: the suppressor run before the test.
SuppressorCallsAlways(filter) == 1

\* Calls of rnnoise_process_frame in one pass: the call is inside the
\* branch of if (state->filter_enabled), read once per pass.
SuppressorCalls(filter) == IF filter THEN 1 ELSE 0

\* One pass of the window loop, from "remaining" to the meter post.
DuplexWindow ==
    /\ dc_pc = "loop"
    /\ dc_i < dc_frameCount
    /\ LET remaining == dc_frameCount - dc_i
           to_process == ToProcess(remaining)
           buffer == ZeroPad(ConvertPcm(ZeroBuffer, dc_i, to_process), to_process)
           mono == [j \in Window |-> Downmix(InL(dc_i + j), InR(dc_i + j))]
       IN /\ dc_to_process' = to_process
          /\ dc_buffer' = buffer
          /\ dc_volume' = Radicand(dc_i, to_process)
          /\ IF dc_filter
             THEN /\ dc_processed' = Suppress(buffer)
                  /\ dc_out' = WriteFrames(dc_out, dc_i, to_process,
                                  [j \in Window |-> FloatToInt16(Suppress(buffer)[j])])
                  /\ dc_path' = "filtered"
             ELSE /\ dc_processed' = [j \in Window |-> 10 * buffer[j]]
                  /\ dc_out' = WriteFrames(dc_out, dc_i, to_process, mono)
                  /\ dc_path' = "bypass"
    /\ dc_calls' = dc_calls + SuppressorCalls(dc_filter)
    /\ dc_windows' = dc_windows + 1
    /\ dc_posts' = dc_posts + 1
    /\ dc_i' = dc_i + RNNOISE_FRAME_SIZE
    /\ dc_pc' = IF dc_i' < dc_frameCount THEN "loop" ELSE "done"
    /\ UNCHANGED <<dc_active, dc_state, dc_is_processing, dc_pInput, dc_pOutput,
                   dc_null_store, dc_filter, dc_frameCount, dc_in, dc_delta,
                   dc_narrow>>
    /\ UNCHANGED <<lifeVars, paVars, unitVars>>

NextCallback == DuplexEnter \/ DuplexToggle \/ DuplexWindow

SpecCallback == InitFileTool /\ [][NextCallback]_vars

\* ------------------------------ biquad_process on the AppState's filters
\* Samples handed to biquad_process, in tenths.
BiquadInputs == {-10000, 0, 10, 10000}

\* out = biquad_process(&state->bandpass_filterN, in)
BiquadProcess ==
    /\ bq_n < MaxSamples
    /\ bq_n' = bq_n + 1
    /\ \E w \in {1, 2}, x \in BiquadInputs :
         LET res == biquad_process(IF w = 1 THEN bandpass_filter1
                                   ELSE bandpass_filter2, x)
         IN /\ bq_which' = w
            /\ bq_in' = x
            /\ bq_out' = res.out
            /\ bandpass_filter1' = IF w = 1 THEN res.f ELSE bandpass_filter1
            /\ bandpass_filter2' = IF w = 2 THEN res.f ELSE bandpass_filter2
    /\ UNCHANGED <<variant, is_processing, filter_enabled, device_initialized,
                   rnnoise_state, status_label, start_sensitive, stop_sensitive,
                   input_index, output_index, resVars, ui_pc, ui_caller,
                   vu_pending, cbVars, faultVars, paVars, dcVars, mxVars,
                   moVars, recVars>>

NextBiquad == OnFilterToggle \/ BiquadProcess

SpecBiquad == InitFileTool /\ [][NextBiquad]_vars

\* ------------------------------- the downmix of unnamed/part_000, by frame
MixSamples == {-32768, -32767, -1000, -3, -1, 0, 1, 3, 1000, 32766, 32767}

\* float_buffer[j] = (float)(l + r / 2): the division binds to r alone.
MixToFloat(l, r) == l + CDiv(r, 2)

\* One pass of the mixing loop on a frame (l, r).
MixFrame ==
    /\ \E l \in MixSamples, r \in MixSamples :
         /\ mx_l' = l
         /\ mx_r' = r
         /\ mx_float' = MixToFloat(l, r)
    /\ mx_done' = TRUE
    /\ UNCHANGED <<lifeVars, paVars, dcVars, bqVars, moVars, recVars>>

NextMix == MixFrame

SpecMix == InitFileTool /\ [][NextMix]_vars

\* ------------- duplex_callback of unnamed/part_001, sample by sample
\* Values the mono input samples are built from, and what the stack holds
\* where float_buffer is placed: the array is declared without initializer.
MonoInputs == {0, 1000, -32768, 32767}
StackValues == {0, 12345}
MonoDeltas == {0, 7}

\* in[k]
MonoIn(k) == IF k % 3 = 2 THEN CDiv(mo_in, 2) ELSE mo_in

\* block = (i + FRAME_SIZE <= frameCount) ? FRAME_SIZE : (frameCount - i)
Block(i, frameCount) ==
    IF i + FRAME_SIZE <= frameCount THEN FRAME_SIZE ELSE frameCount - i

\* float_buffer[j] = (float)in[i + j] / 32768.0f, for j < block only: the
\* positions from block on keep what the buffer held.
LoadBlock(buf, i, block) ==
    [j \in Window |-> IF j < block THEN MonoIn(i + j) ELSE buf[j]]

\* rnnoise_process_frame(state->rnnoise_state, float_buffer, float_buffer)
SuppressInPlace(buf) == [j \in Window |-> buf[j] + mo_delta]

\* sample = float_buffer[j] * RNNOISE_GAIN, clamped to [-1, 1];
\* out[i + j] = (int16_t)(sample * 32767.0f)
GainToInt16(v) ==
    LET g == CDiv(v * 95, 100)
        c == IF g > 32768 THEN 32768 ELSE IF g < -32768 THEN -32768 ELSE g
    IN CDiv(c * 32767, 32768)

\* Entry of an invocation that passes the guard.
MonoEnter ==
    /\ mo_pc = "idle"
    /\ mo_frameCount' \in DetailFrameCounts
    /\ mo_in' \in MonoInputs
    /\ mo_delta' \in MonoDeltas
    /\ \E g \in StackValues : mo_float_buffer' = [j \in Window |-> g]
    /\ mo_i' = 0
    /\ mo_pc' = "loop"
    /\ mo_window' = ZeroBuffer
    /\ mo_out' = [k \in 0..(OutFrames - 1) |-> [n |-> 0, s |-> 0]]
    /\ UNCHANGED <<mo_block, mo_windows>>
    /\ UNCHANGED <<lifeVars, paVars, dcVars, bqVars, mxVars, recVars>>

\* One pass of the block loop.
MonoWindow ==
    /\ mo_pc = "loop"
    /\ mo_i < mo_frameCount
    /\ LET block == Block(mo_i, mo_frameCount)
           loaded == LoadBlock(mo_float_buffer, mo_i, block)
           processed == SuppressInPlace(loaded)
       IN /\ mo_block' = block
          /\ mo_window' = loaded
          /\ mo_float_buffer' = processed
          /\ mo_out' = [k \in DOMAIN mo_out |->
                          IF k >= mo_i /\ k < mo_i + block
                          THEN [n |-> mo_out[k].n + 1,
                                s |-> GainToInt16(processed[k - mo_i])]
                          ELSE mo_out[k]]
    /\ mo_windows' = mo_windows + 1
    /\ mo_i' = mo_i + FRAME_SIZE
    /\ mo_pc' = IF mo_i' < mo_frameCount THEN "loop" ELSE "done"
    /\ UNCHANGED <<mo_frameCount, mo_in, mo_delta>>
    /\ UNCHANGED <<lifeVars, paVars, dcVars, bqVars, mxVars, recVars>>

NextMono == MonoEnter \/ MonoWindow

SpecMono == InitFileTool /\ [][NextMono]_vars

\* --------------------------------------- the recorder (unnamed/part_002)
\* Frame counts handed to data_callback: one window, half the buffer, one
\* sample short of the buffer, and a count far beyond the buffer.
RecFrameCounts == {480, MAX_SAMPLES \div 2, MAX_SAMPLES - 1, 2000000000}

\* A device operation (start, stop, uninit) applied to the device as it is.
BadOps(op) ==
    IF rec_device = "uninit" THEN rec_bad_ops \cup {op} ELSE rec_bad_ops

\* Faulty form of SamplesToCopy: the count taken as it comes.
SamplesToCopyUnclamped(pos, frameCount) == frameCount

\* samples_to_copy = frameCount * CHANNELS, cut to MAX_SAMPLES - pos when
\* pos + samples_to_copy > MAX_SAMPLES (size_t arithmetic, 64 bits).
SamplesToCopy(pos, frameCount) ==
    IF pos + frameCount > MAX_SAMPLES THEN MAX_SAMPLES - pos ELSE frameCount

\* data_callback on the audio thread of a started device.
data_callback ==
    /\ rec_device = "started"
    /\ rec_pc # "exited"
    /\ rec_calls < MaxRecCallbacks
    /\ rec_calls' = rec_calls + 1
    /\ \E frameCount \in RecFrameCounts, pInput \in Pointers :
         /\ rec_frameCount' = frameCount
         /\ rec_pInput' = pInput
         /\ IF ~is_recording \/ is_paused \/ pInput = "null"
            THEN /\ rec_copied' = 0
                 /\ UNCHANGED <<audio_buffer_pos, rec_past_end>>
            ELSE LET samples_to_copy == SamplesToCopy(audio_buffer_pos, frameCount)
                 IN /\ rec_copied' = samples_to_copy
                    /\ rec_past_end' =
                          (rec_past_end
                             \/ audio_buffer_pos + samples_to_copy > MAX_SAMPLES)
                    /\ audio_buffer_pos' = audio_buffer_pos + samples_to_copy
    /\ UNCHANGED <<is_recording, is_paused, button_record, button_pause,
                   button_stop, rec_pc, rec_device, rec_bad_ops, sv_result,
                   sv_data_size, sv_data_bytes>>
    /\ UNCHANGED <<lifeVars, paVars, dcVars, bqVars, mxVars, moVars>>

\* on_record: a click on Record while it is sensitive.  The result of
\* ma_device_start is not looked at.
on_record ==
    /\ rec_pc = "idle"
    /\ button_record
    /\ IF ~is_recording
       THEN /\ audio_buffer_pos' = 0
            /\ is_paused' = FALSE
            /\ is_recording' = TRUE
            /\ rec_bad_ops' = BadOps("start")
            /\ \E started \in BOOLEAN :
                 rec_device' = IF rec_device = "stopped" /\ started
                               THEN "started" ELSE rec_device
            /\ button_record' = FALSE
            /\ button_pause' = TRUE
            /\ button_stop' = TRUE
       ELSE UNCHANGED <<audio_buffer_pos, is_paused, is_recording, rec_bad_ops,
                        rec_device, button_record, button_pause, button_stop>>
    /\ UNCHANGED <<rec_pc, rec_calls, rec_frameCount, rec_pInput, rec_copied, rec_past_end,
                   sv_result, sv_data_size, sv_data_bytes>>
    /\ UNCHANGED <<lifeVars, paVars, dcVars, bqVars, mxVars, moVars>>

\* on_pause: a click on Pause while it is sensitive.
on_pause ==
    /\ rec_pc = "idle"
    /\ button_pause
    /\ is_paused' = ~is_paused
    /\ UNCHANGED <<audio_buffer_pos, is_recording, button_record, button_pause,
                   button_stop, rec_pc, rec_device, rec_bad_ops, rec_calls,
                   rec_frameCount, rec_pInput, rec_copied, rec_past_end, sv_result,
                   sv_data_size, sv_data_bytes>>
    /\ UNCHANGED <<lifeVars, paVars, dcVars, bqVars, mxVars, moVars>>

\* Faulty form of on_stop: is_paused left as it is.
on_stop_keeps_pause ==
    /\ rec_pc = "idle"
    /\ button_stop
    /\ is_recording
    /\ rec_bad_ops' = BadOps("stop")
    /\ rec_device' = IF rec_device = "started" THEN "stopped" ELSE rec_device
    /\ is_recording' = FALSE
    /\ button_record' = TRUE
    /\ button_pause' = FALSE
    /\ button_stop' = FALSE
    /\ UNCHANGED <<is_paused, audio_buffer_pos, rec_pc, rec_calls, rec_frameCount, rec_pInput,
                   rec_copied, rec_past_end, sv_result, sv_data_size,
                   sv_data_bytes>>
    /\ UNCHANGED <<lifeVars, paVars, dcVars, bqVars, mxVars, moVars>>

\* on_stop: a click on Stop while it is sensitive.  ma_device_stop returns
\* when the audio thread has left the callback.
on_stop ==
    /\ rec_pc = "idle"
    /\ button_stop
    /\ IF is_recording
       THEN /\ rec_bad_ops' = BadOps("stop")
            /\ rec_device' = IF rec_device = "started" THEN "stopped"
                             ELSE rec_device
            /\ is_recording' = FALSE
            /\ is_paused' = FALSE
            /\ button_record' = TRUE
            /\ button_pause' = FALSE
            /\ button_stop' = FALSE
       ELSE UNCHANGED <<rec_bad_ops, rec_device, is_recording, is_paused,
                        button_record, button_pause, button_stop>>
    /\ UNCHANGED <<audio_buffer_pos, rec_pc, rec_calls, rec_frameCount, rec_pInput,
                   rec_copied, rec_past_end, sv_result, sv_data_size,
                   sv_data_bytes>>
    /\ UNCHANGED <<lifeVars, paVars, dcVars, bqVars, mxVars, moVars>>

\* create_wav_header(&header, audio_buffer_pos * sizeof(int16_t)): the
\* data_size field, a uint32_t; twice MAX_SAMPLES is below 2^32.
HeaderDataSize(pos) == pos * 2

\* on_save up to fwrite(&header, ...): the dialog, fopen, the header made
\* from audio_buffer_pos as it is now.  Save is sensitive at all times.
on_save_header ==
    /\ rec_pc = "idle"
    /\ \E response \in {"accept", "cancel"}, opened \in BOOLEAN :
         IF response = "cancel"
         THEN /\ sv_result' = "cancelled"
              /\ UNCHANGED <<rec_pc, sv_data_size, sv_data_bytes>>
         ELSE IF ~opened
         THEN /\ sv_result' = "open_failed"
              /\ UNCHANGED <<rec_pc, sv_data_size, sv_data_bytes>>
         ELSE /\ sv_result' = "header_written"
              /\ sv_data_size' = HeaderDataSize(audio_buffer_pos)
              /\ sv_data_bytes' = 0
              /\ rec_pc' = "save_data"
    /\ UNCHANGED <<audio_buffer_pos, is_recording, is_paused, button_record,
                   button_pause, button_stop, rec_device, rec_bad_ops, rec_calls,
                   rec_frameCount, rec_pInput, rec_copied, rec_past_end>>
    /\ UNCHANGED <<lifeVars, paVars, dcVars, bqVars, mxVars, moVars>>

\* on_save from fwrite(audio_buffer, sizeof(int16_t), audio_buffer_pos, f)
\* on: audio_buffer_pos is read again.
on_save_data ==
    /\ rec_pc = "save_data"
    /\ sv_data_bytes' = audio_buffer_pos * 2
    /\ sv_result' = "saved"
    /\ rec_pc' = "idle"
    /\ UNCHANGED <<audio_buffer_pos, is_recording, is_paused, button_record,
                   button_pause, button_stop, rec_device, rec_bad_ops, rec_calls,
                   rec_frameCount, rec_pInput, rec_copied, rec_past_end, sv_data_size>>
    /\ UNCHANGED <<lifeVars, paVars, dcVars, bqVars, mxVars, moVars>>

\* on_device_changed: another entry of the combo chosen.  The device is
\* uninitialized before the new one is tried; a failed ma_device_init only
\* prints a message.  The combo has an active entry whenever it signals a
\* change, so device_name is not NULL.
on_device_changed ==
    /\ rec_pc = "idle"
    /\ ~is_recording
    /\ rec_bad_ops' = BadOps("uninit")
    /\ \E result \in {"MA_SUCCESS", "MA_ERROR"} :
         rec_device' = IF result = "MA_SUCCESS" THEN "stopped" ELSE "uninit"
    /\ UNCHANGED <<audio_buffer_pos, is_recording, is_paused, button_record,
                   button_pause, button_stop, rec_pc, rec_calls, rec_frameCount, rec_pInput,
                   rec_copied, rec_past_end, sv_result, sv_data_size,
                   sv_data_bytes>>
    /\ UNCHANGED <<lifeVars, paVars, dcVars, bqVars, mxVars, moVars>>

\* The window closed: gtk_main returns and main uninitializes the device.
recorder_exit ==
    /\ rec_pc = "idle"
    /\ rec_bad_ops' = BadOps("uninit")
    /\ rec_device' = "uninit"
    /\ rec_pc' = "exited"
    /\ UNCHANGED <<audio_buffer_pos, is_recording, is_paused, button_record,
                   button_pause, button_stop, rec_calls, rec_frameCount, rec_pInput,
                   rec_copied, rec_past_end, sv_result, sv_data_size,
                   sv_data_bytes>>
    /\ UNCHANGED <<lifeVars, paVars, dcVars, bqVars, mxVars, moVars>>

NextRecorder ==
    \/ data_callback
    \/ on_record
    \/ on_pause
    \/ on_stop
    \/ on_save_header
    \/ on_save_data
    \/ on_device_changed
    \/ recorder_exit

SpecRecorder == InitFileTool /\ [][NextRecorder]_vars

\* ===================================================== lifecycle properties
StartPcs == {"start_check", "start_create", "start_init", "start_start", "start_set"}
StopPcs == {"stop_uninit", "stop_destroy", "stop_clear"}

\* The state of the lifecycle state machine of the controller: a handler
\* that has not yet decided anything (stop_check) or has finished with the
\* session (destroy_ctx, quit) leaves the phase to is_processing.
Phase ==
    IF ui_pc \in StartPcs THEN "Starting"
    ELSE IF ui_pc \in StopPcs THEN "Stopping"
    ELSE IF is_processing THEN "Active"
    ELSE "Idle"

FailureLabels == {"Select input/output devices", "Failed to init RNNoise",
                  "Failed to initialize RNNoise", "Failed to init device",
                  "Failed to start device"}

\* C1: no callback hands a destroyed suppression state to
\* rnnoise_process_frame: a callback that passed its guard holds a live
\* state; stop_processing destroys the state only once the device is
\* uninitialized, and clears is_processing only after both.
C1_NoUseAfterDestroy ==
    /\ ~use_after_free
    /\ (cb_pc = "loop" => rnnoise_state \in Live)
    /\ (ui_pc = "stop_destroy" => device = "uninit" /\ is_processing)
    /\ (ui_pc = "stop_clear" => device = "uninit" /\ Live = {} /\ is_processing)

\* C1 witness: stop_processing has destroyed a state that callbacks of the
\* session had been suppressing with.
C1_Witness ==
    /\ ui_pc = "stop_clear"
    /\ last_win.kind = "filtered"
    /\ cb_count >= 2
    /\ Live = {}

\* C2: a start_processing that fails returns in Idle with nothing it
\* acquired still live: no suppression state, no initialized device.
C2_FailedStartReleases ==
    [][(ui_pc \in StartPcs /\ ui_pc' = "idle" /\ status_label' \in FailureLabels)
         => /\ ~is_processing'
            /\ Live' = {}
            /\ device' = "uninit"
            /\ (ui_pc = "start_init" => rnnoise_state \in Live)
            /\ (ui_pc = "start_start" => rnnoise_state \in Live /\ device = "inited")]_vars

\* C2 witness: Idle after ma_device_start failed in the second session.
C2_Witness ==
    /\ ui_pc = "idle"
    /\ status_label = "Failed to start device"
    /\ created = 2
    /\ Live = {}
    /\ device = "uninit"

\* C3: with no device selected, or with rnnoise_create returning NULL,
\* start_processing sets the status text and returns in Idle without
\* reaching ma_device_init; with no selection it allocates nothing.
C3_NoDeviceTouched ==
    [][/\ (ui_pc = "start_check" /\ variant # "part_001"
              /\ (input_index < 0 \/ output_index < 0))
           => /\ ui_pc' = "idle"
              /\ status_label' = "Select input/output devices"
              /\ ~is_processing'
              /\ UNCHANGED <<heap, created, device, rnnoise_state>>
              /\ device = "uninit"
       /\ (ui_pc = "start_create" /\ created' = created)
           => /\ ui_pc' = "idle"
              /\ status_label' \in {"Failed to init RNNoise",
                                     "Failed to initialize RNNoise"}
              /\ ~is_processing'
              /\ rnnoise_state' = NULL
              /\ UNCHANGED <<heap, device>>
              /\ device = "uninit"]_vars

\* C3 witness: Idle after rnnoise_create failed, following an earlier session.
C3_Witness ==
    /\ ui_pc = "idle"
    /\ status_label = "Failed to init RNNoise"
    /\ created = 1
    /\ device = "uninit"

\* C4: stop_processing entered while is_processing is FALSE returns at
\* once and changes no field, no device and no suppression state; no state
\* is ever destroyed twice and no device uninitialized twice.
C4_StopIdempotent ==
    [][/\ (ui_pc = "stop_check" /\ ~is_processing)
           => /\ ui_pc' = StopReturn
              /\ UNCHANGED <<appVars, resVars>>
       /\ ~double_free'
       /\ ~double_uninit']_vars

\* C4 witness: stop_processing entered from Idle after a failed device
\* open, with rnnoise_state still naming the destroyed state.
C4_Witness ==
    /\ ui_pc = "stop_check"
    /\ ~is_processing
    /\ rnnoise_state # NULL
    /\ rnnoise_state \notin Live

PhaseSteps == {<<"Idle", "Starting">>, <<"Starting", "Active">>,
               <<"Starting", "Idle">>, <<"Active", "Stopping">>,
               <<"Stopping", "Idle">>}

\* C5: start_processing never runs while is_processing is TRUE, and the
\* lifecycle moves only along Idle -> Starting -> Active -> Stopping ->
\* Idle, with Starting -> Idle exactly on a failure.
C5_StartOnlyFromIdle ==
    [][/\ (ui_pc' \in StartPcs => ~is_processing')
       /\ (Phase' # Phase => <<Phase, Phase'>> \in PhaseSteps)
       /\ (Phase = "Starting" /\ Phase' = "Idle"
              => status_label' \in FailureLabels /\ device' # "started")
       /\ (Phase = "Starting" /\ Phase' = "Active"
              => device' = "started" /\ rnnoise_state' \in Live')
       /\ (Phase = "Active" /\ Phase' = "Active"
              => UNCHANGED <<rnnoise_state, device, Live>>)]_vars

\* C5 witness: a second session is Active after a full cycle.
C5_Witness ==
    /\ Phase = "Active"
    /\ created = 2
    /\ ~start_sensitive

\* C6: at most one suppression state is live; exactly one while Active,
\* none while Idle.
C6_OneStatePerSession ==
    /\ Cardinality(Live) <= 1
    /\ (Phase = "Active" => Live = {rnnoise_state})
    /\ (Phase = "Idle" => Live = {})

\* C6 witness: Idle again after two sessions were started and stopped.
C6_Witness ==
    /\ Phase = "Idle"
    /\ ui_pc = "idle"
    /\ created = 2
    /\ status_label = "Stopped"

\* C7 (as claimed): is_processing and the rnnoise_state pointer are written
\* only while the device is not delivering callbacks.
C7_WritesOnlyWhileStopped ==
    [][(is_processing' # is_processing \/ rnnoise_state' # rnnoise_state)
         => device # "started"]_vars

\* C8: the destroy path releases the context and quits only after
\* stop_processing has run: the device is uninitialized and no suppression
\* state is live by then.
C8_StopBeforeContextRelease ==
    (ui_pc \in {"destroy_ctx", "quit"} \/ context = "released")
        => /\ ~is_processing
           /\ device = "uninit"
           /\ Live = {}
           /\ ui_caller = "on_window_destroy"

\* C8 witness: the window was destroyed while Active; the device is
\* uninitialized and the state destroyed, the context not yet released.
C8_Witness ==
    /\ ui_pc = "stop_clear"
    /\ ui_caller = "on_window_destroy"
    /\ context = "live"
    /\ device = "uninit"
    /\ Live = {}
    /\ cb_count >= 1

\* C9 (as claimed): of the windows suppressed through a session's state,
\* the first is not written to the playback output and every later one is.
C9_WarmupDiscardPerSession ==
    last_win.kind = "filtered" => (last_win.written <=> last_win.idx > 0)

\* =================================================== file-tool properties
\* C10 (as claimed): a processed file of D samples yields exactly D - 480
\* output samples, none of them from the first window.
C10_WrittenIsLenMinusFrame ==
    pa_pc = "done" => /\ pa_written = pa_len - FRAME_SIZE
                      /\ 0 \notin pa_windows

\* C10 (amended): a processed file of D samples yields D - 480 output
\* samples when D >= 480 and none when D < 480; the first window is never
\* written and every later one is, in each invocation.
C10_WrittenIsLenMinusFirstWindow ==
    pa_pc = "done" =>
        /\ pa_written = pa_len - Min(pa_len, FRAME_SIZE)
        /\ pa_windows = {w \in 1..(pa_len \div FRAME_SIZE) : w * FRAME_SIZE < pa_len}

\* C10 witness: a second file has been processed, ending in a partial window.
C10_Witness ==
    /\ pa_pc = "done"
    /\ pa_runs = 2
    /\ pa_len = 2 * FRAME_SIZE + 1
    /\ pa_written = FRAME_SIZE + 1
    /\ pa_windows = {1, 2}

\* ============================================ callback window properties
Windows(n) == (n + RNNOISE_FRAME_SIZE - 1) \div RNNOISE_FRAME_SIZE

\* The window the last pass of the loop worked on starts at this frame.
LastStart == dc_i - RNNOISE_FRAME_SIZE

\* C11: an active invocation over N frames has written, after each pass of
\* the window loop, every output frame below min(i, N) exactly once and no
\* other frame; at its return these are the frames 0 .. N-1, each written
\* once, and no frame at or above N, whether or not N is a multiple of 480.
C11_OutputIndicesExact ==
    dc_active =>
        \A k \in DOMAIN dc_out :
            dc_out[k].n = IF k < Min(dc_i, dc_frameCount) THEN 1 ELSE 0

\* C11 witness: an invocation has returned whose third window was partial;
\* its last frame is written and the frame after it is not.
C11_Witness ==
    /\ dc_pc = "done"
    /\ dc_active
    /\ dc_frameCount = 2 * RNNOISE_FRAME_SIZE + 1
    /\ dc_to_process = 1
    /\ dc_out[dc_frameCount - 1].n = 1
    /\ dc_out[dc_frameCount].n = 0

\* C12: an active invocation over N frames makes ceil(N / 480) passes, and
\* the buffer a pass hands to the suppressor has the 480 positions
\* 0 .. 479: position j holds the downmix of input frame i + j where that
\* frame exists (i + j < N) and zero where it does not.
C12_WindowsAndPadding ==
    dc_active =>
        /\ dc_windows = Min(dc_i \div RNNOISE_FRAME_SIZE, Windows(dc_frameCount))
        /\ dc_pc = "done" => dc_windows = Windows(dc_frameCount)
        /\ (dc_filter /\ dc_windows > 0) =>
              /\ DOMAIN dc_buffer = 0..(RNNOISE_FRAME_SIZE - 1)
              /\ \A j \in DOMAIN dc_buffer :
                    dc_buffer[j] =
                        IF LastStart + j < dc_frameCount
                        THEN CDiv(InL(LastStart + j) + InR(LastStart + j), 2)
                        ELSE 0

\* C12 witness: a filtered invocation has returned after three windows,
\* the last of them one frame of non-zero input and 479 of padding.
C12_Witness ==
    /\ dc_pc = "done"
    /\ dc_active /\ dc_filter
    /\ dc_windows = 3
    /\ dc_to_process = 1
    /\ dc_buffer[0] # 0
    /\ dc_buffer[1] = 0

\* C13: for every input frame of a window, l + r fits 32 bits, (l + r) / 2
\* lies in [-32768, 32767], and the value stored in the buffer is that
\* quotient: narrowing to 16 bits and converting to float change nothing.
C13_DownmixInRange ==
    (dc_active /\ dc_windows > 0) =>
        \A j \in 0..(dc_to_process - 1) :
            LET l == InL(LastStart + j)
                r == InR(LastStart + j)
            IN /\ l + r \in -2147483647..2147483647
               /\ CDiv(l + r, 2) \in Int16
               /\ dc_buffer[j] = CDiv(l + r, 2)

\* C13 witness: windows of the extreme pairs have been mixed: 32767 with
\* -32768 gives 0, and the two equal extremes give themselves.
C13_Witness ==
    /\ dc_active /\ dc_windows > 0
    /\ \/ dc_in = [l |-> 32767, r |-> -32768] /\ dc_buffer[0] = 0
       \/ dc_in = [l |-> -32768, r |-> -32768] /\ dc_buffer[0] = -32768
    /\ dc_to_process = RNNOISE_FRAME_SIZE

\* C14 (as claimed): on the filter path every output sample is the
\* suppressor's value clipped to [-32768, 32767] and then truncated: above
\* 32767 it is 32767, below -32768 it is -32768.
C14_OutputClipped ==
    (dc_active /\ dc_filter /\ dc_windows > 0) =>
        \A j \in 0..(dc_to_process - 1) :
            LET t == CDiv(dc_processed[j], 10)
            IN dc_out[LastStart + j].l =
                  IF t > 32767 THEN 32767 ELSE IF t < -32768 THEN -32768 ELSE t

\* ============================================== meter value properties
\* The sum of the squares of the buffer positions from .. to-1, by halves.
RECURSIVE SumOfSquares(_, _)
SumOfSquares(from, to) ==
    IF to <= from THEN WideZero
    ELSE IF to = from + 1 THEN WideOf(dc_buffer[from] * dc_buffer[from])
    ELSE LET mid == (from + to) \div 2
         IN WideAdd(SumOfSquares(from, mid), SumOfSquares(mid, to))

\* C15 (as claimed): the value posted for a window is a defined number in
\* [0, 1]: the operand of the square root is a quotient by a positive
\* count, is not negative, and is at most 32768^2.
C15_VolumeInUnitInterval ==
    (dc_active /\ dc_windows > 0) =>
        /\ dc_volume.n > 0
        /\ dc_volume.sum.hi >= 0
        /\ \/ dc_volume.sum.hi < 1024 * dc_volume.n
           \/ dc_volume.sum.hi = 1024 * dc_volume.n /\ dc_volume.sum.lo = 0

\* C16 (as claimed): the sum accumulated for a window is the sum of the
\* squares of its to_process mono samples, and it is divided by to_process.
C16_SumOfMonoSquares ==
    (dc_active /\ dc_windows > 0) =>
        /\ dc_volume.n = dc_to_process
        /\ dc_volume.sum = SumOfSquares(0, dc_to_process)

\* C17: a window whose input frames are all zero is measured as sqrt(0 / n)
\* with n >= 1, that is exactly 0, for a full and for a partial window.
C17_SilenceMeasuresZero ==
    (dc_active /\ dc_windows > 0) =>
        ((\A k \in LastStart..(Min(dc_i, dc_frameCount) - 1) :
              InL(k) = 0 /\ InR(k) = 0)
         => /\ dc_volume.n >= 1
            /\ dc_volume.sum = WideZero)

\* C17 witness: silence has been measured over a full window and then over
\* a partial window of two frames.
C17_Witness ==
    /\ dc_active
    /\ dc_in = [l |-> 0, r |-> 0]
    /\ dc_windows = 3
    /\ dc_to_process = 1
    /\ dc_volume = [sum |-> WideZero, n |-> 1]

\* ============================================== meter update properties
\* C18: in audio_denoiser.c an invocation that passes the guard has posted
\* one VuUpdateData for each window it has been through, filtered or
\* bypassed, hence ceil(N / 480) when it returns; an invocation that takes
\* the zero-fill path posts none.
C18_OnePostPerWindow ==
    variant = "audio_denoiser" =>
        /\ cb_pc = "loop" => cb_posts = cb_i \div RNNOISE_FRAME_SIZE
        /\ (cb_pc = "idle" /\ last_win.kind \in {"filtered", "bypass"})
              => cb_posts = Windows(cb_frameCount)
        /\ (cb_pc = "idle" /\ last_win.kind = "zero") => cb_posts = 0

\* C18 witness: an invocation over two windows has returned with two
\* posts, the first window filtered and the second bypassed.
C18_Witness ==
    /\ variant = "audio_denoiser"
    /\ cb_pc = "idle"
    /\ cb_frameCount = 2 * RNNOISE_FRAME_SIZE
    /\ cb_posts = 2
    /\ last_win.kind = "bypass"
    /\ rnnoise_state \in Live
    /\ heap[rnnoise_state] = 1

\* C19 (as claimed): no posted VuUpdateData is left unconsumed; once
\* gtk_main_quit has run nothing is dispatched any more, so none is
\* pending then.
C19_NoUpdateLeftAtQuit ==
    ui_pc = "quit" => vu_pending = 0

\* C20: whatever the number of unconsumed updates and wherever the GTK
\* thread stands, an invocation inside its window loop can take its next
\* pass.
C20_CallbackNeverWaits ==
    cb_pc = "loop" => ENABLED CallbackWindow

\* C20 witness: a second invocation is in its loop while the updates of
\* the first are all unconsumed and the GTK thread is inside a handler.
C20_Witness ==
    /\ cb_pc = "loop"
    /\ cb_count = 2
    /\ cb_i > 0
    /\ vu_pending >= 3
    /\ ui_pc # "idle"

\* ================================================= bookkeeping properties
\* C25: in audio_denoiser.c, whenever a step leaves no handler running,
\* is_processing is TRUE exactly when Start is insensitive and Stop is
\* sensitive, and the label reads "Processing..." if the session is Active;
\* the step that ends a stop which found the session Active leaves the
\* label "Stopped" and the session inactive.
C25_UiMirrorsLifecycle ==
    [][variant = "audio_denoiser" =>
         /\ ui_pc' \in {"idle", "quit"} =>
               /\ is_processing' <=> (~start_sensitive' /\ stop_sensitive')
               /\ is_processing' => status_label' = "Processing..."
         /\ (ui_pc = "stop_clear" /\ ui_pc' # "stop_clear") =>
               /\ status_label' = "Stopped"
               /\ ~is_processing']_vars

\* C25 witness: a session that processed audio has been stopped by the
\* Stop button; the label reads "Stopped" and Start is sensitive again.
C25_Witness ==
    /\ variant = "audio_denoiser"
    /\ ui_pc = "idle"
    /\ ui_caller = "on_stop"
    /\ status_label = "Stopped"
    /\ ~is_processing /\ start_sensitive /\ ~stop_sensitive
    /\ created = 1
    /\ cb_count >= 1

\* C29 (as claimed): in every Idle state, failed starts included,
\* rnnoise_state is NULL and device_initialized is FALSE.
C29_IdleBookkeepingClean ==
    (ui_pc = "idle" /\ ~is_processing) =>
        /\ rnnoise_state = NULL
        /\ ~device_initialized

\* ============================================ callback guard properties
\* C21: an invocation with a valid output buffer that finds the session
\* inactive or the input buffer null returns with both samples of each of
\* its frameCount output frames set to zero once and no other frame
\* touched, without a suppressor call, a window, a meter post or a fault.
C21_InactiveWritesSilence ==
    (dc_pc = "done" /\ dc_pOutput = "valid"
        /\ (~dc_is_processing \/ dc_pInput = "null")) =>
        /\ \A k \in DOMAIN dc_out :
              dc_out[k] = IF k < dc_frameCount THEN [n |-> 1, l |-> 0, r |-> 0]
                          ELSE [n |-> 0, l |-> 0, r |-> 0]
        /\ dc_calls = 0
        /\ dc_windows = 0
        /\ dc_posts = 0
        /\ ~dc_null_store

\* C21 witness: an invocation of 481 frames with a null input buffer, on a
\* session that is processing, has returned after zeroing its 481 frames.
C21_Witness ==
    /\ dc_pc = "done"
    /\ dc_state = "valid" /\ dc_is_processing
    /\ dc_pInput = "null" /\ dc_pOutput = "valid"
    /\ dc_frameCount = RNNOISE_FRAME_SIZE + 1
    /\ dc_out[RNNOISE_FRAME_SIZE].n = 1
    /\ dc_out[RNNOISE_FRAME_SIZE + 1].n = 0

\* C24: every output frame written holds the same value in its left and
\* its right sample, on the filter path and on the bypass path.
C24_LeftEqualsRight ==
    \A k \in DOMAIN dc_out : dc_out[k].n > 0 => dc_out[k].l = dc_out[k].r

\* C24 witness: an invocation has written a filtered window and then a
\* bypassed one, both of non-zero samples.
C24_Witness ==
    /\ dc_pc = "done"
    /\ dc_windows = 2
    /\ dc_calls = 1
    /\ dc_path = "bypass"
    /\ dc_out[0].n = 1 /\ dc_out[0].l # 0
    /\ dc_out[RNNOISE_FRAME_SIZE].n = 1 /\ dc_out[RNNOISE_FRAME_SIZE].l # 0

\* C26: a pass of the loop that reads filter_enabled FALSE makes no
\* suppressor call and stores in both samples of each of its frames the
\* downmix (L + R) / 2 of the same input frame; a pass that reads it TRUE
\* makes one call and stores the converted suppressor value in each of its
\* frames: no window is part suppressed and part bypassed, whatever the
\* toggles between passes.
C26_BypassIsPlainDownmix ==
    [][dc_windows' = dc_windows + 1 =>
         /\ ~dc_filter =>
               /\ dc_calls' = dc_calls
               /\ \A j \in 0..(dc_to_process' - 1) :
                     LET m == CDiv(InL(dc_i + j) + InR(dc_i + j), 2)
                     IN dc_out'[dc_i + j] =
                           [n |-> dc_out[dc_i + j].n + 1, l |-> m, r |-> m]
         /\ dc_filter =>
               /\ dc_calls' = dc_calls + 1
               /\ \A j \in 0..(dc_to_process' - 1) :
                     dc_out'[dc_i + j].l = FloatToInt16(dc_processed'[j])]_vars

\* C26 witness: the filter was switched off during an invocation; its
\* first window went through the suppressor and its second was bypassed.
C26_Witness ==
    /\ dc_windows = 2
    /\ dc_calls = 1
    /\ dc_path = "bypass"
    /\ ~dc_filter
    /\ dc_in = [l |-> -3, r |-> 0]
    /\ dc_out[RNNOISE_FRAME_SIZE].l = -1

\* C30 (as claimed): an invocation with a null output pointer returns
\* without a store to the output buffer.
C30_NoStoreThroughNull ==
    (dc_pc = "done" /\ dc_pOutput = "null") => ~dc_null_store

\* ================================================== bandpass properties
Coefficients(f) == <<f.b0, f.b1, f.b2, f.a1, f.a2>>
History(f) == <<f.x1, f.x2, f.y1, f.y2>>
Filter(w) == IF w = 1 THEN bandpass_filter1 ELSE bandpass_filter2

\* C22: a toggle to on leaves both filters with their history at zero and
\* the coefficients of (48000, 500, 2) and (48000, 2000, 2), whatever the
\* history was; a call of biquad_process on a filter whose history is zero
\* returns b0 * in; a toggle to off leaves both filters as they were.
C22_ToggleResetsHistory ==
    [][/\ (~filter_enabled /\ filter_enabled') =>
            /\ History(bandpass_filter1') = <<0, 0, 0, 0>>
            /\ History(bandpass_filter2') = <<0, 0, 0, 0>>
            /\ Coefficients(bandpass_filter1') =
                  Coefficients(biquad_init_bandpass(ZeroFilter, SAMPLE_RATE, 500, 2))
            /\ Coefficients(bandpass_filter2') =
                  Coefficients(biquad_init_bandpass(ZeroFilter, SAMPLE_RATE, 2000, 2))
       /\ (filter_enabled /\ ~filter_enabled') =>
            UNCHANGED <<bandpass_filter1, bandpass_filter2>>
       /\ (bq_n' = bq_n + 1 /\ History(Filter(bq_which')) = <<0, 0, 0, 0>>) =>
            bq_out' = Mul(Filter(bq_which').b0, bq_in')]_vars

\* C22 witness: the first filter returned a non-zero value, which went
\* into its history, and a later toggle to on has zeroed that history and
\* left the coefficients in place.
C22_Witness ==
    /\ filter_enabled
    /\ bq_n >= 1
    /\ bq_which = 1
    /\ bq_out # 0
    /\ History(bandpass_filter1) = <<0, 0, 0, 0>>
    /\ bandpass_filter1.b0 # 0

\* C23: a call of biquad_process returns b0*in + b1*x1 + b2*x2 - a1*y1 -
\* a2*y2 over the history it finds, leaves the history shifted (x2 = old
\* x1, x1 = in, y2 = old y1, y1 = the value returned), and changes neither
\* the coefficients nor the other filter.
C23_BiquadRecurrence ==
    [][bq_n' = bq_n + 1 =>
         LET f == Filter(bq_which')
             g == IF bq_which' = 1 THEN bandpass_filter1' ELSE bandpass_filter2'
         IN /\ bq_out' = Mul(f.b0, bq_in') + Mul(f.b1, f.x1) + Mul(f.b2, f.x2)
                           - Mul(f.a1, f.y1) - Mul(f.a2, f.y2)
            /\ History(g) = <<bq_in', f.x1, bq_out', f.y1>>
            /\ Coefficients(g) = Coefficients(f)
            /\ IF bq_which' = 1 THEN UNCHANGED bandpass_filter2
                                ELSE UNCHANGED bandpass_filter1]_vars

\* C23 witness: three samples have gone through the second filter, whose
\* four history values are now all non-zero.
C23_Witness ==
    /\ bq_n = 3
    /\ bq_which = 2
    /\ bandpass_filter2.b0 # 0
    /\ bandpass_filter2.x1 # 0 /\ bandpass_filter2.x2 # 0
    /\ bandpass_filter2.y1 # 0 /\ bandpass_filter2.y2 # 0
    /\ bandpass_filter2.x1 # bandpass_filter2.x2

\* ============================================== variant properties
\* C27 (as claimed): the value the callback of unnamed/part_000 puts in
\* float_buffer for a frame is (L + R) / 2 and lies in [-32768, 32767].
C27_Part000Average ==
    mx_done => /\ mx_float = CDiv(mx_l + mx_r, 2)
               /\ mx_float \in Int16

\* C28 (as claimed): every window the callback of unnamed/part_001 hands
\* to the suppressor holds the input samples of the window followed by
\* zeros up to 480 positions.
C28_MonoWindowZeroPadded ==
    mo_windows > 0 =>
        \A j \in DOMAIN mo_window :
            mo_window[j] = IF mo_i - FRAME_SIZE + j < mo_frameCount
                           THEN MonoIn(mo_i - FRAME_SIZE + j) ELSE 0

\* ============================================== filter set-up properties
\* C31 (as claimed): in audio_denoiser.c, whenever filter_enabled is TRUE
\* both band-pass filters are as biquad_init_bandpass leaves them: the
\* coefficients of (48000, 500, 2) and (48000, 2000, 2), history zero.
C31_EnabledMeansInitialized ==
    (variant = "audio_denoiser" /\ filter_enabled) =>
        /\ bandpass_filter1 = biquad_init_bandpass(ZeroFilter, SAMPLE_RATE, 500, 2)
        /\ bandpass_filter2 = biquad_init_bandpass(ZeroFilter, SAMPLE_RATE, 2000, 2)

\* ==================================================== recorder properties
\* C32: audio_buffer_pos never exceeds MAX_SAMPLES and no memcpy of
\* data_callback goes past the end of audio_buffer; an invocation that
\* passes the guard copies frameCount samples, or MAX_SAMPLES -
\* audio_buffer_pos when that is less, and nothing once the buffer is full.
C32_NoCopyPastEnd ==
    [][/\ audio_buffer_pos' <= MAX_SAMPLES
       /\ ~rec_past_end'
       /\ rec_calls' = rec_calls + 1 =>
            /\ audio_buffer_pos' = audio_buffer_pos + rec_copied'
            /\ (is_recording /\ ~is_paused /\ rec_pInput' = "valid") =>
                  rec_copied' = Min(rec_frameCount', MAX_SAMPLES - audio_buffer_pos)
            /\ audio_buffer_pos = MAX_SAMPLES => rec_copied' = 0]_vars

\* C32 witness: an invocation with a frame count far beyond the buffer has
\* copied the one sample that was left.
C32_Witness ==
    /\ rec_frameCount = 2000000000
    /\ rec_pInput = "valid"
    /\ rec_copied = 1
    /\ audio_buffer_pos = MAX_SAMPLES
    /\ ~rec_past_end

C34_SavedFileConsistent ==
    sv_result = "saved" => sv_data_size = sv_data_bytes

\* C35 (as claimed): ma_device_start, ma_device_stop and ma_device_uninit
\* are never applied to a device that is uninitialized at that moment.
C35_DeviceOpsOnInitialized ==
    rec_bad_ops = {}

\* ============================================== file-tool file properties
\* C36 (as claimed): the output file of a completed process_audio is
\* self-consistent: the data_size of the header written is the number of
\* bytes of samples written after it.
C36_OutputFileConsistent ==
    pa_pc = "done" => pa_data_size = 2 * pa_written

\* The checks of process_audio that turn down the input itself.
InputRejections ==
    {"empty_path", "open_input", "read_header", "bad_tags", "bad_format"}

\* C37: a request turned down for its input has not opened (created or
\* truncated) the output file; when process_audio has returned, by any
\* path, every file it opened has been closed exactly once and the
\* suppression state, if created, destroyed exactly once; before that
\* nothing is closed or destroyed more often than it was opened or created.
C37_RejectedLeavesOutputAlone ==
    /\ (pa_pc = "rejected" /\ pa_reject \in InputRejections) =>
          /\ ~pa_out_created
          /\ pa_opens["fout"] = 0
    /\ pa_pc \in {"rejected", "done"} =>
          /\ pa_closes = pa_opens
          /\ pa_destroys = pa_creates
          /\ pa_fin = "closed" /\ pa_fout = "closed"
          /\ pa_st # "live"
    /\ \A f \in DOMAIN pa_opens : pa_closes[f] <= pa_opens[f] /\ pa_opens[f] <= 1
    /\ pa_destroys <= pa_creates

\* C37 witness: the second request of a run was turned down for its
\* format: the input was opened and closed once, the output left alone,
\* no suppression state created.
C37_Witness ==
    /\ pa_runs = 2
    /\ pa_pc = "rejected"
    /\ pa_reject = "bad_format"
    /\ pa_opens = [fin |-> 1, fout |-> 0]
    /\ pa_closes = [fin |-> 1, fout |-> 0]
    /\ ~pa_out_created
    /\ pa_creates = 0 /\ pa_destroys = 0

====
